---- MODULE Spec2Model ----
(***************************************************************************)
(* The peer-address registry of zcash/address_book.go: the Address        *)
(* conversions (fromPeerKey, String), the AddressBook operations (Add,    *)
(* Remove, Blacklist, Touch, IsKnown, IsBlacklisted) and the blocking     *)
(* waitForAddresses, with the RWMutex and the condition variable they use. *)
(*                                                                         *)
(* A text (a PeerKey, a host, a port) is a sequence of one-character       *)
(* strings, so that splitting, parsing and formatting are computed the way *)
(* the library routines compute them.                                      *)
(***************************************************************************)
EXTENDS Integers, Sequences, FiniteSets, TLC

----------------------------------------------------------------------------
(* Characters and small helpers.                                           *)

Digits == <<"0", "1", "2", "3", "4", "5", "6", "7", "8", "9">>

HexDigits == <<"0", "1", "2", "3", "4", "5", "6", "7", "8", "9",
               "a", "b", "c", "d", "e", "f">>

IsDigit(c) == \E i \in 1..Len(Digits) : Digits[i] = c

DigitVal(c) == (CHOOSE i \in 1..Len(Digits) : Digits[i] = c) - 1

\* Upper-case hex digits are accepted by the parser and have the same value.
UpperHex == <<"A", "B", "C", "D", "E", "F">>

IsHex(c) ==
    \/ \E i \in 1..Len(HexDigits) : HexDigits[i] = c
    \/ \E i \in 1..Len(UpperHex) : UpperHex[i] = c

HexVal(c) ==
    IF \E i \in 1..Len(HexDigits) : HexDigits[i] = c
    THEN (CHOOSE i \in 1..Len(HexDigits) : HexDigits[i] = c) - 1
    ELSE (CHOOSE i \in 1..Len(UpperHex) : UpperHex[i] = c) + 9

\* Position of the first / last occurrence of c in s, 0 when there is none.
IndexByte(s, c) ==
    IF \E i \in 1..Len(s) : s[i] = c
    THEN CHOOSE i \in 1..Len(s) : s[i] = c /\ \A j \in 1..(i - 1) : s[j] # c
    ELSE 0

LastIndexByte(s, c) ==
    IF \E i \in 1..Len(s) : s[i] = c
    THEN CHOOSE i \in 1..Len(s) : s[i] = c /\ \A j \in (i + 1)..Len(s) : s[j] # c
    ELSE 0

\* s[from:] of Go, from being the 1-based position of the first element kept.
Drop(s, from) == SubSeq(s, from, Len(s))

----------------------------------------------------------------------------
(* net.SplitHostPort, as called by fromPeerKey.                            *)

SplitErr == [ok |-> FALSE, host |-> <<>>, port |-> <<>>]

SplitHostPort(hostport) ==
    LET i == LastIndexByte(hostport, ":")
    IN  IF i = 0 THEN SplitErr                           \* missing port
        ELSE
        LET bracket == hostport[1] = "["
            end == IndexByte(hostport, "]")
            host == IF bracket THEN SubSeq(hostport, 2, end - 1)
                               ELSE SubSeq(hostport, 1, i - 1)
            \* j, k: the text from these positions on may hold no '[' / ']'
            j == IF bracket THEN 2 ELSE 1
            k == IF bracket THEN end + 1 ELSE 1
        IN  IF bracket /\ end = 0 THEN SplitErr          \* missing ']'
            ELSE IF bracket /\ end + 1 # i THEN SplitErr \* missing port / too many colons
            ELSE IF ~bracket /\ IndexByte(host, ":") # 0 THEN SplitErr
            ELSE IF IndexByte(Drop(hostport, j), "[") # 0 THEN SplitErr
            ELSE IF IndexByte(Drop(hostport, k), "]") # 0 THEN SplitErr
            ELSE [ok |-> TRUE, host |-> host, port |-> Drop(hostport, i + 1)]

----------------------------------------------------------------------------
(* strconv.ParseUint(portString, 10, 16) and strconv.Itoa.                 *)

PortBits == 16

MaxPort == 2 ^ PortBits - 1

\* The value of a digit text, or -1 when it is empty, holds a non-digit or
\* exceeds MaxPort (the accumulator never passes 10 * MaxPort + 9).
RECURSIVE ParseUintFrom(_, _, _)
ParseUintFrom(s, pos, acc) ==
    IF pos > Len(s) THEN acc
    ELSE IF ~IsDigit(s[pos]) THEN -1
    ELSE LET n == acc * 10 + DigitVal(s[pos])
         IN  IF n > MaxPort THEN -1 ELSE ParseUintFrom(s, pos + 1, n)

ParseUint(s) == IF Len(s) = 0 THEN -1 ELSE ParseUintFrom(s, 1, 0)

RECURSIVE Itoa(_)
Itoa(n) == IF n < 10 THEN <<Digits[n + 1]>>
           ELSE Itoa(n \div 10) \o <<Digits[(n % 10) + 1]>>

----------------------------------------------------------------------------
(* net.ParseIP and net.IP.String.  An IP is the sequence of its eight      *)
(* 16-bit groups (the 16-byte form ParseIP returns), or <<>> for a nil IP. *)

NilIP == <<>>

MaxOctet == 255

MaxGroup == 65535

IPv6Groups == 8

\* The four octets of a dotted-decimal text, or <<>>: an octet has no leading
\* zero and is at most MaxOctet; a dot is neither first, last nor doubled.
RECURSIVE ParseIPv4From(_, _, _, _, _)
ParseIPv4From(s, pos, val, digLen, fields) ==
    IF pos > Len(s)
    THEN IF Len(fields) < 3 THEN <<>> ELSE Append(fields, val)
    ELSE IF IsDigit(s[pos])
    THEN IF digLen = 1 /\ val = 0 THEN <<>>
         ELSE LET v == val * 10 + DigitVal(s[pos])
              IN  IF v > MaxOctet THEN <<>>
                  ELSE ParseIPv4From(s, pos + 1, v, digLen + 1, fields)
    ELSE IF s[pos] = "."
    THEN IF pos = 1 \/ pos = Len(s) \/ s[pos - 1] = "." THEN <<>>
         ELSE IF Len(fields) = 3 THEN <<>>
         ELSE ParseIPv4From(s, pos + 1, 0, 0, Append(fields, val))
    ELSE <<>>

ParseIPv4(s) == ParseIPv4From(s, 1, 0, 0, <<>>)

\* The hex number at the head of s: [off |-> digits read, acc |-> value],
\* off = -1 when the group has more than four digits.
RECURSIVE HexGroup(_, _, _)
HexGroup(s, off, acc) ==
    IF off >= Len(s) \/ ~IsHex(s[off + 1]) THEN [off |-> off, acc |-> acc]
    ELSE IF off + 1 > 4 THEN [off |-> -1, acc |-> 0]
    ELSE HexGroup(s, off + 1, acc * 16 + HexVal(s[off + 1]))

Zeros(n) == [x \in 1..n |-> 0]

\* The loop of the IPv6 parser: s is the text left, groups the 16-bit groups
\* saved so far, ellipsis the number of groups saved when "::" was seen (-1:
\* not seen).
RECURSIVE ParseIPv6Loop(_, _, _)
ParseIPv6Finish(s, groups, ellipsis) ==
    IF Len(s) # 0 THEN <<>>
    ELSE IF Len(groups) < IPv6Groups
    THEN IF ellipsis < 0 THEN <<>>
         ELSE SubSeq(groups, 1, ellipsis)
              \o Zeros(IPv6Groups - Len(groups))
              \o SubSeq(groups, ellipsis + 1, Len(groups))
    ELSE IF ellipsis >= 0 THEN <<>>
    ELSE groups

ParseIPv6Loop(s, groups, ellipsis) ==
    IF Len(groups) >= IPv6Groups THEN ParseIPv6Finish(s, groups, ellipsis)
    ELSE
    LET g == HexGroup(s, 0, 0)
    IN  IF g.off <= 0 THEN <<>>
        ELSE IF g.off < Len(s) /\ s[g.off + 1] = "."
        THEN \* a trailing dotted-decimal part fills the last two groups
             IF ellipsis < 0 /\ Len(groups) # IPv6Groups - 2 THEN <<>>
             ELSE IF Len(groups) + 2 > IPv6Groups THEN <<>>
             ELSE LET ip4 == ParseIPv4(s)
                  IN  IF ip4 = <<>> THEN <<>>
                      ELSE ParseIPv6Finish(<<>>,
                               groups \o <<ip4[1] * 256 + ip4[2], ip4[3] * 256 + ip4[4]>>,
                               ellipsis)
        ELSE
        LET saved == Append(groups, g.acc)
            rest == Drop(s, g.off + 1)
        IN  IF Len(rest) = 0 THEN ParseIPv6Finish(rest, saved, ellipsis)
            ELSE IF rest[1] # ":" \/ Len(rest) = 1 THEN <<>>
            ELSE IF rest[2] = ":"
            THEN IF ellipsis >= 0 THEN <<>>
                 ELSE IF Len(rest) = 2 THEN ParseIPv6Finish(<<>>, saved, Len(saved))
                 ELSE ParseIPv6Loop(Drop(rest, 3), saved, Len(saved))
            ELSE ParseIPv6Loop(Drop(rest, 2), saved, ellipsis)

ParseIPv6(s) ==
    IF Len(s) >= 2 /\ s[1] = ":" /\ s[2] = ":"
    THEN IF Len(s) = 2 THEN Zeros(IPv6Groups)
         ELSE ParseIPv6Loop(Drop(s, 3), <<>>, 0)
    ELSE ParseIPv6Loop(s, <<>>, -1)

V4Mapped(o) == <<0, 0, 0, 0, 0, MaxGroup, o[1] * 256 + o[2], o[3] * 256 + o[4]>>

\* net.ParseIP: the first '.' or ':' of the text decides the family; a text
\* with neither is no IP literal and yields the nil IP.
ParseIP(s) ==
    LET dot == IndexByte(s, ".")
        colon == IndexByte(s, ":")
    IN  IF dot # 0 /\ (colon = 0 \/ dot < colon)
        THEN LET o == ParseIPv4(s) IN IF o = <<>> THEN NilIP ELSE V4Mapped(o)
        ELSE IF colon # 0 THEN ParseIPv6(s)
        ELSE NilIP

RECURSIVE HexText(_)
HexText(n) == IF n < 16 THEN <<HexDigits[n + 1]>>
              ELSE HexText(n \div 16) \o <<HexDigits[(n % 16) + 1]>>

\* ip.To4() # nil: the IPv4-mapped form.
IsV4(ip) == /\ \A i \in 1..5 : ip[i] = 0
            /\ ip[6] = MaxGroup

\* Length of the run of zero groups starting at group i.
RECURSIVE ZeroRun(_, _)
ZeroRun(ip, i) == IF i > Len(ip) \/ ip[i] # 0 THEN 0 ELSE 1 + ZeroRun(ip, i + 1)

\* Start of the first longest run of two or more zero groups, 0 if none.
ZeroStart(ip) ==
    IF \E i \in 1..Len(ip) : ZeroRun(ip, i) >= 2
    THEN CHOOSE i \in 1..Len(ip) :
            /\ ZeroRun(ip, i) >= 2
            /\ \A j \in 1..Len(ip) : ZeroRun(ip, j) <= ZeroRun(ip, i)
            /\ \A j \in 1..(i - 1) : ZeroRun(ip, j) < ZeroRun(ip, i)
    ELSE 0

RECURSIVE IPv6Text(_, _, _)
IPv6Text(ip, i, zs) ==
    IF i > Len(ip) THEN <<>>
    ELSE IF i = zs
    THEN <<":", ":">> \o IPv6Text(ip, i + ZeroRun(ip, i), -1)
    ELSE (IF i > 1 /\ zs # -1 THEN <<":">> ELSE <<>>)
         \o HexText(ip[i]) \o IPv6Text(ip, i + 1, IF zs = -1 THEN 0 ELSE zs)

IPString(ip) ==
    IF Len(ip) = 0 THEN <<"<", "n", "i", "l", ">">>
    ELSE IF IsV4(ip)
    THEN Itoa(ip[7] \div 256) \o <<".">> \o Itoa(ip[7] % 256) \o <<".">>
         \o Itoa(ip[8] \div 256) \o <<".">> \o Itoa(ip[8] % 256)
    ELSE IPv6Text(ip, 1, ZeroStart(ip))

\* net.JoinHostPort: a host holding a colon is bracketed.
JoinHostPort(host, port) ==
    IF IndexByte(host, ":") # 0 \/ IndexByte(host, "%") # 0
    THEN <<"[">> \o host \o <<"]", ":">> \o port
    ELSE host \o <<":">> \o port

----------------------------------------------------------------------------
(* Bounds of the model.                                                    *)

\* Goroutines calling Add, Remove, Blacklist, Touch, IsKnown, IsBlacklisted.
NumWorkers == 2

\* Goroutines calling waitForAddresses.
NumWaiters == 1

\* The clock read by time.Now() runs from 0 to MaxClock ticks.
MaxClock == 1

\* Clock ticks in one second: wire.NewNetAddressTimestamp keeps whole seconds.
TicksPerSecond == 2

Workers == 1..NumWorkers

Waiters == (NumWorkers + 1)..(NumWorkers + NumWaiters)

Procs == Workers \cup Waiters

\* The PeerKey texts the callers pass.
KeyPlain == <<"1", ".", "2", ".", "3", ".", "4", ":", "8", "0">>

KeyZeroPort == <<"1", ".", "2", ".", "3", ".", "4", ":", "0", "8", "0">>

KeyNoPort == <<"b", "a", "d">>

KeyLoopback == <<"[", ":", ":", "1", "]", ":", "8", "0">>

KeyBigPort == <<"1", ".", "2", ".", "3", ".", "4", ":", "6", "5", "5", "3", "6">>

\* A text with a host that is no IP literal: net.ParseIP gives a nil IP.
KeyHost == <<"h", ":", "8", "0">>

KeyList == <<KeyPlain, KeyZeroPort, KeyNoPort>>

Keys == {KeyList[i] : i \in 1..Len(KeyList)}

\* The texts fromPeerKey is tried on: every concatenation of up to MaxTokens
\* of these pieces of host:port texts.
MaxTokens == 4

Tokens ==
    { <<"1", ".", "2", ".", "3", ".", "4">>, <<":", ":", "1">>, <<"h">>,
      <<"[">>, <<"]", ":">>, <<":">>,
      <<"0">>, <<"8", "0">>, <<"6", "5", "5", "3">> }

RECURSIVE Concats(_)
Concats(n) ==
    IF n = 0 THEN {<<>>}
    ELSE LET shorter == Concats(n - 1)
         IN  shorter \cup {t \o k : t \in shorter, k \in Tokens}

Texts == Concats(MaxTokens)

\* Thresholds a waitForAddresses caller may pass: one more than the number
\* of keys that can ever be present is a threshold that is never reached.
MaxThreshold == 3

Thresholds == 1..MaxThreshold

----------------------------------------------------------------------------
(* type Address and its conversions.                                       *)

\* time.Unix(t.Unix(), 0): the time cut to whole seconds.
UnixSeconds(t) == t - (t % TicksPerSecond)

\* wire.NewNetAddressTimestamp(timestamp, 0, ip, port)
NewNetAddressTimestamp(timestamp, ip, port) ==
    [Timestamp |-> UnixSeconds(timestamp), IP |-> ip, Port |-> port]

NoAddress == [err |-> TRUE]

\* The part of fromPeerKey that reads the text alone: net.SplitHostPort,
\* strconv.ParseUint(portString, 10, 16) and net.ParseIP(host).
parsePeerKey(s) ==
    LET split == SplitHostPort(s)
    IN  IF ~split.ok THEN NoAddress
        ELSE LET portInt == ParseUint(split.port)
             IN  IF portInt < 0 THEN NoAddress
                 ELSE [err |-> FALSE, IP |-> ParseIP(split.host), Port |-> portInt]

\* parsePeerKey of every text a caller passes, computed once.
PeerKeyTable == [s \in Keys \cup {KeyLoopback, KeyBigPort} \cup Texts |-> parsePeerKey(s)]

\* parsePeerKey of the key texts the callers of the registry pass, computed
\* once.
KeyTable == [s \in Keys \cup {KeyLoopback, KeyBigPort, KeyHost} |-> parsePeerKey(s)]

\* parsePeerKey(s), looked up.
Parsed(s) == IF s \in DOMAIN KeyTable THEN KeyTable[s] ELSE PeerKeyTable[s]

\* (&Address{}).fromPeerKey(s) at clock reading t: NoAddress on an error.
fromPeerKey(s, t) ==
    LET parsed == Parsed(s)
    IN  IF parsed.err THEN NoAddress
        ELSE LET na == NewNetAddressTimestamp(t, parsed.IP, parsed.Port)
             IN  [err |-> FALSE,
                  netaddr |-> na,
                  blacklisted |-> FALSE,
                  lastUpdate |-> na.Timestamp]

\* a.String(), which is also a.asPeerKey() and a.MarshalText()
String(a) == JoinHostPort(IPString(a.netaddr.IP), Itoa(a.netaddr.Port))

asPeerKey(a) == String(a)

----------------------------------------------------------------------------
(* The state.                                                              *)

VARIABLES
    addrs,      \* bk.addrs: a function from the keys present to their Address
    writer,     \* bk.addrState: the holder of the exclusive lock, or 0
    readers,    \* bk.addrState: the holders of the shared lock
    notify,     \* bk.addrRecvCond: the waiters on the notify list, not yet notified
    pc,         \* where each goroutine is in its call
    call,       \* the call each goroutine is in: its arguments and locals
    done,       \* per waiter, the completion signals received on its done channel
    now,        \* the clock
    heap        \* the memory of the values handed to and by the conversions

vars == <<addrs, writer, readers, notify, pc, call, done, now, heap>>

NoProc == 0

NoCall == [op |-> "none"]

\* The memory of the values the conversions work on: the cells allocated so
\* far, each holding a wire.NetAddress, the bytes of a net.IP or an Address
\* outside the map.  A pointer is the number of its cell, nil is 0, and at
\* most MaxLocs cells are ever allocated.
MaxLocs == 4

Nil == 0

NoHeap == <<>>

\* NewAddressBook(): an empty map, a free lock, a condition with no waiter.
Init ==
    /\ addrs = [k \in {} |-> NoAddress]
    /\ writer = NoProc
    /\ readers = {}
    /\ notify = {}
    /\ pc = [p \in Procs |-> "idle"]
    /\ call = [p \in Procs |-> NoCall]
    /\ done = [p \in Procs |-> 0]
    /\ now = 0
    /\ heap = NoHeap

\* _, ok := bk.addrs[s]
Has(m, s) == s \in DOMAIN m

\* bk.addrs[s] = a
MapPut(m, s, a) == [k \in DOMAIN m \cup {s} |-> IF k = s THEN a ELSE m[k]]

\* delete(bk.addrs, s)
MapDelete(m, s) == [k \in DOMAIN m \ {s} |-> m[k]]

\* len(bk.addrs)
MapLen(m) == Cardinality(DOMAIN m)

----------------------------------------------------------------------------
(* sync.RWMutex and sync.Cond.                                             *)

\* addrState.Lock() returns: nobody holds the lock in either form.
CanLock == writer = NoProc /\ readers = {}

\* addrState.RLock() returns: nobody holds the exclusive form.
CanRLock == writer = NoProc

Goto(p, label) == pc' = [pc EXCEPT ![p] = label]

\* Goroutine p has called op and has not run its first statement yet.
Called(p, op) == pc[p] = "called" /\ call[p].op = op

\* An idle goroutine calls a method of the registry with the text s.
Call(p, op, s) ==
    /\ pc[p] = "idle"
    /\ call' = [call EXCEPT ![p] = [op |-> op, s |-> s]]
    /\ Goto(p, "called")
    /\ UNCHANGED <<addrs, writer, readers, notify, done, now, heap>>

\* An idle goroutine calls waitForAddresses(n, done).
CallWait(p, n) ==
    /\ pc[p] = "idle"
    /\ call' = [call EXCEPT ![p] = [op |-> "waitForAddresses", n |-> n]]
    /\ Goto(p, "called")
    /\ UNCHANGED <<addrs, writer, readers, notify, done, now, heap>>

\* The time passes.
Tick ==
    /\ now < MaxClock
    /\ now' = now + 1
    /\ UNCHANGED <<addrs, writer, readers, notify, pc, call, done, heap>>

----------------------------------------------------------------------------
(* func (bk *AddressBook) Add(s PeerKey)                                   *)

\* newAddr, err := (&Address{}).fromPeerKey(s), which reads the clock.
AddParse(p) ==
    /\ Called(p, "Add")
    /\ call' = [call EXCEPT ![p] =
                   [op |-> "Add", s |-> call[p].s, newAddr |-> fromPeerKey(call[p].s, now)]]
    /\ Goto(p, "addParsed")
    /\ UNCHANGED <<addrs, writer, readers, notify, done, now, heap>>

\* if err != nil { return }
AddReject(p) ==
    /\ pc[p] = "addParsed"
    /\ call[p].newAddr.err
    /\ call' = [call EXCEPT ![p] = NoCall]
    /\ Goto(p, "idle")
    /\ UNCHANGED <<addrs, writer, readers, notify, done, now, heap>>

\* bk.addrState.Lock()
AddLock(p) ==
    /\ pc[p] = "addParsed"
    /\ ~call[p].newAddr.err
    /\ CanLock
    /\ writer' = p
    /\ Goto(p, "addLocked")
    /\ UNCHANGED <<addrs, readers, notify, call, done, now, heap>>

\* Mutant: an entry that is already there keeps its blacklisted flag.
AddInsertKeepsFlag(p) ==
    /\ pc[p] = "addLocked"
    /\ addrs' = MapPut(addrs, call[p].s,
                       IF Has(addrs, call[p].s)
                       THEN [call[p].newAddr EXCEPT
                                !.blacklisted = addrs[call[p].s].blacklisted]
                       ELSE call[p].newAddr)
    /\ writer' = NoProc
    /\ Goto(p, "addUnlocked")
    /\ UNCHANGED <<readers, notify, call, done, now, heap>>

\* bk.addrs[s] = newAddr; bk.addrState.Unlock()
AddInsert(p) ==
    /\ pc[p] = "addLocked"
    /\ addrs' = MapPut(addrs, call[p].s, call[p].newAddr)
    /\ writer' = NoProc
    /\ Goto(p, "addUnlocked")
    /\ UNCHANGED <<readers, notify, call, done, now, heap>>

\* Mutant: Signal() in place of Broadcast(): one waiter is notified.
AddSignal(p) ==
    /\ pc[p] = "addUnlocked"
    /\ notify' = IF notify = {} THEN {} ELSE notify \ {CHOOSE w \in notify : TRUE}
    /\ call' = [call EXCEPT ![p] = NoCall]
    /\ Goto(p, "idle")
    /\ UNCHANGED <<addrs, writer, readers, done, now, heap>>

\* Mutant: Add returns without waking anyone.
AddNoBroadcast(p) ==
    /\ pc[p] = "addUnlocked"
    /\ call' = [call EXCEPT ![p] = NoCall]
    /\ Goto(p, "idle")
    /\ UNCHANGED <<addrs, writer, readers, notify, done, now, heap>>

\* bk.addrRecvCond.Broadcast(): everyone on the notify list is notified.
AddBroadcast(p) ==
    /\ pc[p] = "addUnlocked"
    /\ notify' = {}
    /\ call' = [call EXCEPT ![p] = NoCall]
    /\ Goto(p, "idle")
    /\ UNCHANGED <<addrs, writer, readers, done, now, heap>>

----------------------------------------------------------------------------
(* func (bk *AddressBook) Remove(s PeerKey)                                *)

\* Mutant: Remove runs its body without taking the lock.
RemoveNoLock(p) ==
    /\ Called(p, "Remove")
    /\ Goto(p, "removeLocked")
    /\ UNCHANGED <<addrs, writer, readers, notify, call, done, now, heap>>

\* bk.addrState.Lock()
RemoveLock(p) ==
    /\ Called(p, "Remove")
    /\ CanLock
    /\ writer' = p
    /\ Goto(p, "removeLocked")
    /\ UNCHANGED <<addrs, readers, notify, call, done, now, heap>>

\* Mutant: a blacklisted entry is not deleted.
RemoveBodyKeepsBlacklisted(p) ==
    /\ pc[p] = "removeLocked"
    /\ addrs' = IF Has(addrs, call[p].s) /\ ~addrs[call[p].s].blacklisted
                THEN MapDelete(addrs, call[p].s) ELSE addrs
    /\ writer' = NoProc
    /\ call' = [call EXCEPT ![p] = NoCall]
    /\ Goto(p, "idle")
    /\ UNCHANGED <<readers, notify, done, now, heap>>

\* if _, ok := bk.addrs[s]; ok { delete(bk.addrs, s) }, then the deferred Unlock
RemoveBody(p) ==
    /\ pc[p] = "removeLocked"
    /\ addrs' = IF Has(addrs, call[p].s) THEN MapDelete(addrs, call[p].s) ELSE addrs
    /\ writer' = NoProc
    /\ call' = [call EXCEPT ![p] = NoCall]
    /\ Goto(p, "idle")
    /\ UNCHANGED <<readers, notify, done, now, heap>>

----------------------------------------------------------------------------
(* func (bk *AddressBook) Blacklist(s PeerKey)                             *)

\* bk.addrState.Lock()
BlacklistLock(p) ==
    /\ Called(p, "Blacklist")
    /\ CanLock
    /\ writer' = p
    /\ Goto(p, "blacklistLocked")
    /\ UNCHANGED <<addrs, readers, notify, call, done, now, heap>>

\* Mutant: a key with no entry is left without one.
BlacklistMapNoCreate(m, s, t) ==
    IF Has(m, s)
    THEN [m EXCEPT ![s].blacklisted = TRUE, ![s].lastUpdate = t]
    ELSE m

\* Mutant: the entry created for a key with no entry is not flagged.
BlacklistMapUnflagged(m, s, t) ==
    IF Has(m, s)
    THEN [m EXCEPT ![s].blacklisted = TRUE, ![s].lastUpdate = t]
    ELSE LET addr == fromPeerKey(s, t)
         IN  IF addr.err THEN m ELSE MapPut(m, s, addr)

\* Mutant: the error of fromPeerKey is not checked and an entry is made of
\* the zero endpoint.
BlacklistMapNoErrCheck(m, s, t) ==
    IF Has(m, s)
    THEN [m EXCEPT ![s].blacklisted = TRUE, ![s].lastUpdate = t]
    ELSE LET addr == fromPeerKey(s, t)
             zero == [err |-> FALSE,
                      netaddr |-> NewNetAddressTimestamp(t, NilIP, 0),
                      blacklisted |-> FALSE,
                      lastUpdate |-> UnixSeconds(t)]
         IN  MapPut(m, s, [(IF addr.err THEN zero ELSE addr) EXCEPT !.blacklisted = TRUE])

\* The map after the body of Blacklist(s) run at clock reading t.
BlacklistMap(m, s, t) ==
    IF Has(m, s)
    THEN [m EXCEPT ![s].blacklisted = TRUE, ![s].lastUpdate = t]
    ELSE LET addr == fromPeerKey(s, t)
         IN  IF addr.err THEN m
             ELSE MapPut(m, s, [addr EXCEPT !.blacklisted = TRUE])

\* The body, then the deferred Unlock.
BlacklistBody(p) ==
    /\ pc[p] = "blacklistLocked"
    /\ addrs' = BlacklistMap(addrs, call[p].s, now)
    /\ writer' = NoProc
    /\ call' = [call EXCEPT ![p] = NoCall]
    /\ Goto(p, "idle")
    /\ UNCHANGED <<readers, notify, done, now, heap>>

----------------------------------------------------------------------------
(* func (bk *AddressBook) Touch(s PeerKey)                                 *)

\* bk.addrState.Lock()
TouchLock(p) ==
    /\ Called(p, "Touch")
    /\ CanLock
    /\ writer' = p
    /\ Goto(p, "touchLocked")
    /\ UNCHANGED <<addrs, readers, notify, call, done, now, heap>>

\* Mutant: Touch makes an entry for a key that has none, as Blacklist does.
TouchMapCreates(m, s, t) ==
    IF Has(m, s) THEN [m EXCEPT ![s].lastUpdate = t]
    ELSE LET addr == fromPeerKey(s, t)
         IN  IF addr.err THEN m ELSE MapPut(m, s, addr)

\* Mutant: Touch makes the entry as new, which clears its blacklisted flag.
TouchMapClearsFlag(m, s, t) ==
    IF Has(m, s)
    THEN [m EXCEPT ![s].blacklisted = FALSE, ![s].lastUpdate = t]
    ELSE m

\* The map after the body of Touch(s) run at clock reading t.
TouchMap(m, s, t) ==
    IF Has(m, s) THEN [m EXCEPT ![s].lastUpdate = t] ELSE m

\* The body, then the deferred Unlock.
TouchBody(p) ==
    /\ pc[p] = "touchLocked"
    /\ addrs' = TouchMap(addrs, call[p].s, now)
    /\ writer' = NoProc
    /\ call' = [call EXCEPT ![p] = NoCall]
    /\ Goto(p, "idle")
    /\ UNCHANGED <<readers, notify, done, now, heap>>

----------------------------------------------------------------------------
(* func (bk *AddressBook) IsKnown(s PeerKey) bool                          *)
(* func (bk *AddressBook) IsBlacklisted(s PeerKey) bool                    *)

\* _, known := bk.addrs[s]; return known
IsKnown(m, s) == Has(m, s)

\* if target, ok := bk.addrs[s]; ok { return target.blacklisted }; return false
IsBlacklisted(m, s) == IF Has(m, s) THEN m[s].blacklisted ELSE FALSE

\* bk.addrState.RLock()
IsKnownRLock(p) ==
    /\ Called(p, "IsKnown")
    /\ CanRLock
    /\ readers' = readers \cup {p}
    /\ Goto(p, "isKnownLocked")
    /\ UNCHANGED <<addrs, writer, notify, call, done, now, heap>>

\* The lookup, then the deferred RUnlock; the caller holds the result.
IsKnownBody(p) ==
    /\ pc[p] = "isKnownLocked"
    /\ readers' = readers \ {p}
    /\ call' = [call EXCEPT ![p] =
                   [op |-> "IsKnown", ret |-> IsKnown(addrs, call[p].s)]]
    /\ Goto(p, "returned")
    /\ UNCHANGED <<addrs, writer, notify, done, now, heap>>

\* Mutant: the shared lock is granted while a writer holds the lock.
IsBlacklistedRLockNoWait(p) ==
    /\ Called(p, "IsBlacklisted")
    /\ readers' = readers \cup {p}
    /\ Goto(p, "isBlacklistedLocked")
    /\ UNCHANGED <<addrs, writer, notify, call, done, now, heap>>

\* bk.addrState.RLock()
IsBlacklistedRLock(p) ==
    /\ Called(p, "IsBlacklisted")
    /\ CanRLock
    /\ readers' = readers \cup {p}
    /\ Goto(p, "isBlacklistedLocked")
    /\ UNCHANGED <<addrs, writer, notify, call, done, now, heap>>

\* The lookup, then the deferred RUnlock; the caller holds the result.
IsBlacklistedBody(p) ==
    /\ pc[p] = "isBlacklistedLocked"
    /\ readers' = readers \ {p}
    /\ call' = [call EXCEPT ![p] =
                   [op |-> "IsBlacklisted", ret |-> IsBlacklisted(addrs, call[p].s)]]
    /\ Goto(p, "returned")
    /\ UNCHANGED <<addrs, writer, notify, done, now, heap>>

\* The caller drops the result of a query and is free to call again.
Forget(p) ==
    /\ pc[p] = "returned"
    /\ call' = [call EXCEPT ![p] = NoCall]
    /\ Goto(p, "idle")
    /\ UNCHANGED <<addrs, writer, readers, notify, done, now, heap>>

----------------------------------------------------------------------------
(* func (bk *AddressBook) waitForAddresses(n int, done chan struct{})      *)

\* Mutant: the waiter takes the shared form of the lock.
WaitRLock(p) ==
    /\ Called(p, "waitForAddresses")
    /\ CanRLock
    /\ readers' = readers \cup {p}
    /\ Goto(p, "waitLocked")
    /\ UNCHANGED <<addrs, writer, notify, call, done, now, heap>>

\* bk.addrState.Lock(), on entry
WaitLock(p) ==
    /\ Called(p, "waitForAddresses")
    /\ CanLock
    /\ writer' = p
    /\ Goto(p, "waitLocked")
    /\ UNCHANGED <<addrs, readers, notify, call, done, now, heap>>

\* Mutant: the loop is left one entry early.
WaitExitEarly(count, n) == ~(count < n - 1)

\* addrCount := len(bk.addrs); if addrCount < n { Wait() } else { break }
WaitExit(count, n) == ~(count < n)

WaitCheck(p) ==
    /\ pc[p] = "waitLocked"
    /\ Goto(p, IF WaitExit(MapLen(addrs), call[p].n) THEN "waitBreak" ELSE "waitEnter")
    /\ UNCHANGED <<addrs, writer, readers, notify, call, done, now, heap>>

\* Cond.Wait, first part: the caller joins the notify list, still locked.
WaitListAdd(p) ==
    /\ pc[p] = "waitEnter"
    /\ notify' = notify \cup {p}
    /\ Goto(p, "waitListed")
    /\ UNCHANGED <<addrs, writer, readers, call, done, now, heap>>

\* Cond.Wait, second part: c.L.Unlock()
WaitRelease(p) ==
    /\ pc[p] = "waitListed"
    /\ writer' = NoProc
    /\ Goto(p, "waitParked")
    /\ UNCHANGED <<addrs, readers, notify, call, done, now, heap>>

\* Cond.Wait, third part: the caller sleeps until a Broadcast has notified it.
WaitWake(p) ==
    /\ pc[p] = "waitParked"
    /\ p \notin notify
    /\ Goto(p, "waitWoken")
    /\ UNCHANGED <<addrs, writer, readers, notify, call, done, now, heap>>

\* Cond.Wait, last part: c.L.Lock(), and round the loop again.
WaitRelock(p) ==
    /\ pc[p] = "waitWoken"
    /\ CanLock
    /\ writer' = p
    /\ Goto(p, "waitLocked")
    /\ UNCHANGED <<addrs, readers, notify, call, done, now, heap>>

\* Mutant: the Unlock is left to after the send on done.
WaitUnlockAfterSend(p) ==
    /\ pc[p] = "waitBreak"
    /\ Goto(p, "waitSend")
    /\ UNCHANGED <<addrs, writer, readers, notify, call, done, now, heap>>

\* bk.addrState.Unlock(), after the loop
WaitUnlock(p) ==
    /\ pc[p] = "waitBreak"
    /\ writer' = NoProc
    /\ Goto(p, "waitSend")
    /\ UNCHANGED <<addrs, readers, notify, call, done, now, heap>>

\* done <- struct{}{}: the caller's receiver takes the signal; return.
WaitSend(p) ==
    /\ pc[p] = "waitSend"
    /\ done' = [done EXCEPT ![p] = done[p] + 1]
    /\ Goto(p, "waitReturned")
    /\ UNCHANGED <<addrs, writer, readers, notify, call, now, heap>>

----------------------------------------------------------------------------
(* The registry under any mix of calls.                                    *)

Methods == {"Add", "Remove", "Blacklist", "Touch", "IsKnown", "IsBlacklisted"}

Add(p) == AddParse(p) \/ AddReject(p) \/ AddLock(p) \/ AddInsert(p) \/ AddBroadcast(p)

Remove(p) == RemoveLock(p) \/ RemoveBody(p)

Blacklist(p) == BlacklistLock(p) \/ BlacklistBody(p)

Touch(p) == TouchLock(p) \/ TouchBody(p)

Query(p) ==
    \/ IsKnownRLock(p)
    \/ IsKnownBody(p)
    \/ IsBlacklistedRLock(p)
    \/ IsBlacklistedBody(p)
    \/ Forget(p)

waitForAddresses(p) ==
    \/ WaitLock(p)
    \/ WaitCheck(p)
    \/ WaitListAdd(p)
    \/ WaitRelease(p)
    \/ WaitWake(p)
    \/ WaitRelock(p)
    \/ WaitUnlock(p)
    \/ WaitSend(p)

Next ==
    \/ \E p \in Workers : \E op \in Methods, s \in Keys : Call(p, op, s)
    \/ \E p \in Workers : Add(p) \/ Remove(p) \/ Blacklist(p) \/ Touch(p) \/ Query(p)
    \/ \E p \in Waiters : \E n \in Thresholds : CallWait(p, n)
    \/ \E p \in Waiters : waitForAddresses(p)
    \/ Tick

Spec == Init /\ [][Next]_vars

\* The calls that change the registry, on their own.
Mutators == {"Add", "Remove", "Blacklist", "Touch"}

NextOps ==
    \/ \E p \in Workers : \E op \in Mutators, s \in Keys : Call(p, op, s)
    \/ \E p \in Workers : Add(p) \/ Remove(p) \/ Blacklist(p) \/ Touch(p)
    \/ Tick

SpecOps == Init /\ [][NextOps]_vars

\* The calls that parse their text and can create an entry, with texts that
\* fail to parse for lack of a port and for a port above 65535, beside
\* waitForAddresses.
Creators == {"Add", "Blacklist"}

CreatorKeys == Keys \cup {KeyBigPort}

NextCreate ==
    \/ \E p \in Workers : \E op \in Creators, s \in CreatorKeys : Call(p, op, s)
    \/ \E p \in Workers : Add(p) \/ Blacklist(p)
    \/ \E p \in Waiters : \E n \in Thresholds : CallWait(p, n)
    \/ \E p \in Waiters : waitForAddresses(p)
    \/ Tick

SpecCreate == Init /\ [][NextCreate]_vars

----------------------------------------------------------------------------
(* Scheduling.  A goroutine that can take a step takes it eventually (the  *)
(* scheduler is preemptive), and a goroutine blocked in Lock gets the lock *)
(* if it is free again and again (a mutex hands over to a starving         *)
(* waiter).  The receiver of a done channel is assumed to be receiving.    *)

Acquire(p) ==
    \/ AddLock(p)
    \/ RemoveLock(p)
    \/ BlacklistLock(p)
    \/ TouchLock(p)
    \/ WaitLock(p)
    \/ WaitRelock(p)

Progress(p) ==
    \/ AddParse(p)
    \/ AddReject(p)
    \/ AddInsert(p)
    \/ AddBroadcast(p)
    \/ RemoveBody(p)
    \/ BlacklistBody(p)
    \/ TouchBody(p)
    \/ WaitCheck(p)
    \/ WaitListAdd(p)
    \/ WaitRelease(p)
    \/ WaitWake(p)
    \/ WaitUnlock(p)
    \/ WaitSend(p)

Fairness == \A p \in Procs : WF_vars(Progress(p)) /\ SF_vars(Acquire(p))

----------------------------------------------------------------------------
(* m concurrent Add calls with distinct valid keys and one or more         *)
(* waitForAddresses(m, done) calls on a new registry, and nothing else.    *)

ValidKeys == {s \in Keys \cup {KeyLoopback} : ~fromPeerKey(s, 0).err}

Injective(f) == \A a, b \in DOMAIN f : a # b => f[a] # f[b]

InitAddWait ==
    /\ addrs = [k \in {} |-> NoAddress]
    /\ writer = NoProc
    /\ readers = {}
    /\ notify = {}
    /\ pc = [p \in Procs |-> "called"]
    /\ \E adders \in (SUBSET Procs) \ {{}, Procs} :
         \E key \in [adders -> ValidKeys] :
            /\ Injective(key)
            /\ call = [p \in Procs |->
                          IF p \in adders
                          THEN [op |-> "Add", s |-> key[p]]
                          ELSE [op |-> "waitForAddresses", n |-> Cardinality(adders)]]
    /\ done = [p \in Procs |-> 0]
    /\ now = 0
    /\ heap = NoHeap

NextAddWait ==
    \/ \E p \in Procs : AddParse(p) \/ AddLock(p) \/ AddInsert(p) \/ AddBroadcast(p)
    \/ \E p \in Procs : waitForAddresses(p)
    \/ Tick

SpecAddWait == InitAddWait /\ [][NextAddWait]_vars /\ Fairness

\* Goroutine p is a waiter that has left its wait loop, released the lock
\* and delivered its completion signal.
Unblocked(p) == pc[p] = "waitReturned" /\ done[p] = 1

IsWaiter(p) == call[p].op = "waitForAddresses"

\* C1: with m concurrent Adds of m distinct valid keys and one or more
\* waitForAddresses(m) callers on a new registry, every waiter eventually
\* leaves its wait and delivers its completion signal, in every fair
\* interleaving: no wake-up is lost.
C1_NoLostWakeup == \A p \in Procs : IsWaiter(p) ~> Unblocked(p)

\* Two waiters were parked together and the Broadcast of one Add has woken
\* both of them, with the count at their threshold.
C1_Witness ==
    \E p, q \in Procs :
        /\ p # q
        /\ IsWaiter(p) /\ pc[p] = "waitWoken"
        /\ IsWaiter(q) /\ pc[q] = "waitWoken"
        /\ MapLen(addrs) = call[p].n

----------------------------------------------------------------------------
(* fromPeerKey and String on their own: one goroutine calls Add with any   *)
(* of the texts, on a new registry.                                        *)

InitParse ==
    /\ addrs = [k \in {} |-> NoAddress]
    /\ writer = NoProc
    /\ readers = {}
    /\ notify = {}
    /\ \E s \in Texts :
         call = [p \in Procs |-> IF p = 1 THEN [op |-> "Add", s |-> s] ELSE NoCall]
    /\ pc = [p \in Procs |-> IF p = 1 THEN "called" ELSE "idle"]
    /\ done = [p \in Procs |-> 0]
    /\ now = 0
    /\ heap = NoHeap

NextParse ==
    \E p \in Workers :
        AddParse(p) \/ AddReject(p) \/ AddLock(p) \/ AddInsert(p) \/ AddBroadcast(p)

SpecParse == InitParse /\ [][NextParse]_vars

----------------------------------------------------------------------------
(* Any mix of Add, Remove, Blacklist and Touch calls, one per worker,      *)
(* running beside the waitForAddresses calls on a new registry.            *)

InitCalls ==
    /\ addrs = [k \in {} |-> NoAddress]
    /\ writer = NoProc
    /\ readers = {}
    /\ notify = {}
    /\ pc = [p \in Procs |-> "called"]
    /\ \E ops \in [Workers -> Mutators], keys \in [Workers -> Keys],
          ns \in [Waiters -> Thresholds] :
         call = [p \in Procs |->
                    IF p \in Workers
                    THEN [op |-> ops[p], s |-> keys[p]]
                    ELSE [op |-> "waitForAddresses", n |-> ns[p]]]
    /\ done = [p \in Procs |-> 0]
    /\ now = 0
    /\ heap = NoHeap

NextCalls ==
    \/ \E p \in Workers : Add(p) \/ Remove(p) \/ Blacklist(p) \/ Touch(p)
    \/ \E p \in Waiters : waitForAddresses(p)
    \/ Tick

SpecCalls == InitCalls /\ [][NextCalls]_vars /\ Fairness

\* C2: if the registry reaches at least n entries and keeps at least n from
\* then on, every caller of waitForAddresses(n) eventually returns, whichever
\* operations created the entries.
C2_ReturnsOnceCountReached ==
    \A p \in Waiters :
        <>[](MapLen(addrs) >= call[p].n) => <>Unblocked(p)

----------------------------------------------------------------------------
(* Claims about the registry under any mix of calls (Spec).                *)

\* Goroutine p takes the step of its call that leads from label from to label to.
Steps(p, from, to) == pc[p] = from /\ pc'[p] = to

Parses(s) == ~Parsed(s).err

\* C3: a waitForAddresses(n) caller leaves its loop only on seeing, with the
\* lock held, at least n entries, and the count is still at least n when it
\* unlocks; it sends on done only after that; and when it holds the lock and
\* sees fewer than n entries (on entry or after a Broadcast woke it) it
\* waits again.
C3_SignalsOnlyAfterCount ==
    [][\A p \in Waiters :
          /\ done'[p] # done[p] => pc[p] = "waitSend" /\ done[p] = 0
          /\ pc'[p] = "waitSend" => pc[p] \in {"waitSend", "waitBreak"}
          /\ pc'[p] = "waitBreak" =>
                /\ pc[p] \in {"waitBreak", "waitLocked"}
                /\ writer' = p
                /\ MapLen(addrs') >= call'[p].n
          /\ (pc[p] = "waitLocked" /\ MapLen(addrs) < call[p].n /\ pc'[p] # pc[p]) =>
                pc'[p] = "waitEnter"
          /\ pc[p] = "waitWoken" => pc'[p] \in {"waitWoken", "waitLocked"}
      ]_vars

\* A waiter with threshold 2 has delivered its completion signal.
C3_Witness == \E p \in Waiters : done[p] = 1 /\ call[p].n = 2

\* C4 as claimed: Remove, Blacklist and Touch never raise the number of entries.
C4_NeverRaiseCount ==
    [][\A p \in Workers :
          (\/ Steps(p, "removeLocked", "idle")
           \/ Steps(p, "blacklistLocked", "idle")
           \/ Steps(p, "touchLocked", "idle")) => MapLen(addrs') <= MapLen(addrs)
      ]_vars

\* C4, amended: Remove and Touch never raise the number of entries; Blacklist
\* never lowers it, and raises it by one exactly when its key has no entry
\* and parses.
C4_OnlyBlacklistRaisesCount ==
    [][\A p \in Workers :
          /\ Steps(p, "removeLocked", "idle") => MapLen(addrs') <= MapLen(addrs)
          /\ Steps(p, "touchLocked", "idle") => MapLen(addrs') = MapLen(addrs)
          /\ Steps(p, "blacklistLocked", "idle") =>
                MapLen(addrs') =
                    IF ~Has(addrs, call[p].s) /\ Parses(call[p].s)
                    THEN MapLen(addrs) + 1 ELSE MapLen(addrs)
      ]_vars

\* Blacklist is about to run on a key that parses and has no entry, while
\* another entry is present.
C4_Witness ==
    \E p \in Workers :
        /\ pc[p] = "blacklistLocked"
        /\ ~Has(addrs, call[p].s) /\ Parses(call[p].s)
        /\ MapLen(addrs) = 1

\* C5: Blacklist(k) of a key that parses and has no entry inserts an entry
\* that is blacklisted, so that IsKnown(k) and IsBlacklisted(k) hold right
\* after; on a key with an entry it sets the flag and keeps the entry (its
\* endpoint data) in place; no other entry changes.
C5_BlacklistCreates ==
    [][\A p \in Workers :
          Steps(p, "blacklistLocked", "idle") =>
             LET k == call[p].s
             IN  /\ (~Has(addrs, k) /\ Parses(k)) =>
                       /\ IsKnown(addrs', k) /\ IsBlacklisted(addrs', k)
                       /\ String(addrs'[k]) = String(fromPeerKey(k, now))
                 /\ Has(addrs, k) =>
                       /\ IsKnown(addrs', k) /\ IsBlacklisted(addrs', k)
                       /\ addrs'[k].netaddr = addrs[k].netaddr
                 /\ \A o \in DOMAIN addrs \ {k} : Has(addrs', o) /\ addrs'[o] = addrs[o]
      ]_vars

\* Blacklist is about to run on a key that parses and has no entry, on an
\* empty registry.
C5_Witness ==
    \E p \in Workers :
        /\ pc[p] = "blacklistLocked"
        /\ ~Has(addrs, call[p].s) /\ Parses(call[p].s)
        /\ MapLen(addrs) = 0

\* C6: the insertion of Add(k) replaces whatever entry k has with the record
\* just parsed, which is not blacklisted: IsKnown(k) holds and
\* IsBlacklisted(k) does not, also right after a Blacklist(k).
C6_ReAddResetsBlacklist ==
    [][\A p \in Workers :
          Steps(p, "addLocked", "addUnlocked") =>
             LET k == call[p].s
             IN  /\ IsKnown(addrs', k)
                 /\ ~IsBlacklisted(addrs', k)
                 /\ addrs'[k] = call[p].newAddr
                 /\ \A o \in DOMAIN addrs \ {k} : Has(addrs', o) /\ addrs'[o] = addrs[o]
      ]_vars

\* Add(k) is about to insert while k has a blacklisted entry.
C6_Witness ==
    \E p \in Workers :
        /\ pc[p] = "addLocked"
        /\ IsBlacklisted(addrs, call[p].s)

\* Goroutine p takes a step of a call of method op on the text s.
StepOf(p, op, s) == call[p].op = op /\ call[p].s = s /\ pc'[p] # pc[p]

\* The key texts that fromPeerKey rejects.
Malformed == {t \in CreatorKeys : ~Parses(t)}

\* C7: no text that fails to parse ever has an entry; every step of an
\* Add(t) with such a text leaves the registry, the lock and the notify list
\* as they are and ends the call, and the body of Blacklist(t) with such a
\* text leaves the registry and the notify list as they are.
C7_MalformedAbsorbed ==
    [][\A p \in Workers : \A t \in Malformed :
             /\ ~IsKnown(addrs, t) /\ ~IsKnown(addrs', t)
             /\ StepOf(p, "Add", t) =>
                   /\ UNCHANGED <<addrs, writer, readers, notify, done>>
                   /\ pc[p] = "addParsed" => pc'[p] = "idle"
             /\ (StepOf(p, "Blacklist", t) /\ pc[p] = "blacklistLocked") =>
                   /\ UNCHANGED <<addrs, notify, done>>
                   /\ pc'[p] = "idle"
      ]_vars

\* Blacklist is about to run on a text whose port is above 65535, while a
\* waiter is on the notify list and an Add of a text with no port has been
\* parsed and is about to return.
C7_Witness ==
    \E p, q \in Workers :
        /\ pc[p] = "blacklistLocked"
        /\ call[p].s = KeyBigPort /\ KeyBigPort \in Malformed
        /\ Called(q, "Add") /\ call[q].s = KeyNoPort /\ KeyNoPort \in Malformed
        /\ notify # {}

\* C8: Touch(k) on a key with no entry changes nothing in the registry;
\* on a key with an entry it changes that entry's lastUpdate alone.
C8_TouchIsConditional ==
    [][\A p \in Workers :
          Steps(p, "touchLocked", "idle") =>
             LET k == call[p].s
             IN  /\ ~Has(addrs, k) => addrs' = addrs /\ ~IsKnown(addrs', k)
                 /\ Has(addrs, k) =>
                       /\ DOMAIN addrs' = DOMAIN addrs
                       /\ addrs'[k] = [addrs[k] EXCEPT !.lastUpdate = now]
                       /\ addrs'[k].blacklisted = addrs[k].blacklisted
                       /\ addrs'[k].netaddr = addrs[k].netaddr
                       /\ \A o \in DOMAIN addrs \ {k} : addrs'[o] = addrs[o]
      ]_vars

\* Touch is about to run on a blacklisted entry that was last updated before
\* now, while another entry is present.
C8_Witness ==
    \E p \in Workers :
        /\ pc[p] = "touchLocked"
        /\ IsBlacklisted(addrs, call[p].s)
        /\ addrs[call[p].s].lastUpdate < now
        /\ MapLen(addrs) = 2

\* C9: Remove(k) on a key with no entry changes nothing in the registry;
\* on a key with an entry it deletes that entry and no other; either way
\* IsKnown(k) and IsBlacklisted(k) are false afterwards.
C9_RemoveIsIdempotent ==
    [][\A p \in Workers :
          Steps(p, "removeLocked", "idle") =>
             LET k == call[p].s
             IN  /\ ~Has(addrs, k) => addrs' = addrs
                 /\ Has(addrs, k) => DOMAIN addrs' = DOMAIN addrs \ {k}
                 /\ \A o \in DOMAIN addrs \ {k} : Has(addrs', o) /\ addrs'[o] = addrs[o]
                 /\ ~IsKnown(addrs', k)
                 /\ ~IsBlacklisted(addrs', k)
      ]_vars

\* Remove is about to run on a blacklisted entry while another entry is
\* present and the other worker is about to run Remove on a key with no entry.
C9_Witness ==
    \E p \in Workers :
        /\ pc[p] = "removeLocked"
        /\ IsBlacklisted(addrs, call[p].s)
        /\ MapLen(addrs) = 2
        /\ \E q \in Workers : q # p /\ Called(q, "Remove") /\ ~Parses(call[q].s)

----------------------------------------------------------------------------
(* Claims about fromPeerKey and String (SpecParse).                        *)

\* C10: the String() of the record fromPeerKey makes of an accepted text is
\* that text.
C10_RoundTrip ==
    \A p \in Workers :
        (pc[p] = "addParsed" /\ ~call[p].newAddr.err) =>
            String(call[p].newAddr) = call[p].s

----------------------------------------------------------------------------
(* Claims about the keys of the map.                                       *)

\* C11: every entry is stored under the canonical text (asPeerKey) of its
\* record, and no two entries hold records with the same canonical text.
C11_OneRecordPerCanonicalKey ==
    \A k \in DOMAIN addrs :
        /\ asPeerKey(addrs[k]) = k
        /\ \A j \in DOMAIN addrs : asPeerKey(addrs[j]) = asPeerKey(addrs[k]) => j = k

----------------------------------------------------------------------------
(* Claims about atomicity and the per-key state.                           *)

\* What the callers can see of key k in the map m.
KeyState(m, k) ==
    IF ~Has(m, k) THEN "Absent"
    ELSE IF m[k].blacklisted THEN "Blacklisted" ELSE "Known"

\* The state of a key after the whole of one operation on it, run alone from
\* the state st: Add passes its Lock with a parsed text only.
After(op, s, st) ==
    CASE op = "Add" -> "Known"
      [] op = "Remove" -> "Absent"
      [] op = "Blacklist" -> IF st = "Absent" /\ s \in Malformed THEN "Absent"
                             ELSE "Blacklisted"
      [] op = "Touch" -> st

\* Goroutine p ends the part of its call that runs under the exclusive lock.
Commits(p) == writer = p /\ writer' = NoProc

\* C12: the map changes only in the step that ends an operation's exclusive
\* section, which takes the operation's key from its state to the state the
\* whole operation gives when run alone and leaves the other keys as they
\* are, so the entry follows the operations in the order of their locks;
\* while a reader holds the shared lock nobody holds the exclusive one and
\* the map stays as it is, and the reader returns what that map holds.
C12_AtomicLastWriteWins ==
    [][/\ writer # NoProc => readers = {}
       /\ addrs' # addrs => \E p \in Workers : Commits(p)
       /\ \A p \in Workers :
             Commits(p) =>
                \A k \in Keys :
                   KeyState(addrs', k) =
                      IF k = call[p].s
                      THEN After(call[p].op, k, KeyState(addrs, k))
                      ELSE KeyState(addrs, k)
       /\ \A q \in Workers :
             /\ q \in readers => addrs' = addrs
             /\ Steps(q, "isKnownLocked", "returned") =>
                   call'[q].ret = (KeyState(addrs, call[q].s) # "Absent")
             /\ Steps(q, "isBlacklistedLocked", "returned") =>
                   call'[q].ret = (KeyState(addrs, call[q].s) = "Blacklisted")
      ]_vars

\* One worker holds the lock in Add and another has called Remove on the
\* same key, which is blacklisted: whichever locks last decides the entry.
C12_Witness ==
    \E p, q \in Workers :
        /\ pc[p] = "addLocked" /\ pc[q] = "called" /\ call[q].op = "Remove"
        /\ call[p].s = call[q].s
        /\ KeyState(addrs, call[p].s) = "Blacklisted"

----------------------------------------------------------------------------
(* func (a *Address) asNetAddress() and fromNetAddress(na), on the memory  *)
(* they work on.  An Address holds a pointer to its wire.NetAddress, and   *)
(* the net.IP of a wire.NetAddress is a slice: a pointer to its bytes.     *)

\* The cell a new value is put in.
NewLoc(h) == Len(h) + 1

\* The wire.NetAddress in cell l, its IP read through the slice.
NetAddressAt(h, l) ==
    [Timestamp |-> h[l].Timestamp,
     IP |-> IF h[l].IP = Nil THEN NilIP ELSE h[h[l].IP].val,
     Port |-> h[l].Port]

\* The Address in cell l, its netaddr read through the pointer.
AddressAt(h, l) ==
    [err |-> FALSE,
     netaddr |-> NetAddressAt(h, h[l].netaddr),
     blacklisted |-> h[l].blacklisted,
     lastUpdate |-> h[l].lastUpdate]

\* ip[i-1] = b on the 16 bytes of a net.IP, kept as 8 groups of two bytes.
SetByte(ip, i, b) ==
    LET g == (i + 1) \div 2
    IN  [ip EXCEPT ![g] = IF i % 2 = 1 THEN b * 256 + (@ % 256)
                          ELSE (@ \div 256) * 256 + b]

ConvertKeys == ValidKeys \cup {KeyHost}

\* The records fromPeerKey makes of them.
ConvertRecords == {fromPeerKey(s, 0) : s \in ConvertKeys}

Conversions == {"asNetAddress", "fromNetAddress"}

\* What the caller writes into the value it holds.
WrittenPorts == {80, 81}

WrittenOffsets == {13, 16}

WrittenBytes == {4, 7}

\* The memory before the conversion.  For asNetAddress: a record as
\* fromPeerKey(s) made it, touched or blacklisted since.  For fromNetAddress:
\* a wire.NetAddress of the caller's, with the host and port of s.
InitConvert ==
    /\ addrs = [k \in {} |-> NoAddress]
    /\ writer = NoProc
    /\ readers = {}
    /\ notify = {}
    /\ done = [p \in Procs |-> 0]
    /\ now = 0
    /\ \E c \in Workers, op \in Conversions, r \in ConvertRecords,
          t \in 0..MaxClock, b \in BOOLEAN :
         LET bytes == IF r.netaddr.IP = NilIP THEN <<>>
                      ELSE <<[kind |-> "bytes", val |-> r.netaddr.IP]>>
             ip == IF r.netaddr.IP = NilIP THEN Nil ELSE 1
             na == Len(bytes) + 1
         IN  /\ pc = [p \in Procs |-> IF p = c THEN "called" ELSE "idle"]
             /\ op = "fromNetAddress" => ~b
             /\ heap = bytes
                       \o <<[kind |-> "NetAddress",
                             Timestamp |-> IF op = "fromNetAddress" THEN t
                                           ELSE r.netaddr.Timestamp,
                             IP |-> ip,
                             Port |-> r.netaddr.Port]>>
                       \o IF op = "asNetAddress"
                          THEN <<[kind |-> "Address", netaddr |-> na,
                                  blacklisted |-> b, lastUpdate |-> t]>>
                          ELSE <<>>
             /\ call = [p \in Procs |->
                          IF p # c THEN NoCall
                          ELSE IF op = "asNetAddress" THEN [op |-> op, a |-> na + 1]
                          ELSE [op |-> op, na |-> na]]

\* newNA := *a.netaddr; newNA.Timestamp = a.lastUpdate; return &newNA
asNetAddress(p) ==
    /\ Called(p, "asNetAddress")
    /\ Len(heap) < MaxLocs
    /\ LET a == call[p].a
           newNA == NewLoc(heap)
       IN  /\ heap' = Append(heap,
                          [heap[heap[a].netaddr] EXCEPT !.Timestamp = heap[a].lastUpdate])
           /\ call' = [call EXCEPT ![p] = [op |-> "asNetAddress", a |-> a, e |-> newNA]]
    /\ Goto(p, "converted")
    /\ UNCHANGED <<addrs, writer, readers, notify, done, now>>

\* (&Address{}).fromNetAddress(na):
\* a.netaddr = na; a.blacklisted = false; a.lastUpdate = na.Timestamp
fromNetAddress(p) ==
    /\ Called(p, "fromNetAddress")
    /\ Len(heap) < MaxLocs
    /\ LET na == call[p].na
           a == NewLoc(heap)
       IN  /\ heap' = Append(heap,
                          [kind |-> "Address", netaddr |-> na,
                           blacklisted |-> FALSE, lastUpdate |-> heap[na].Timestamp])
           /\ call' = [call EXCEPT ![p] = [op |-> "fromNetAddress", a |-> a, e |-> na]]
    /\ Goto(p, "converted")
    /\ UNCHANGED <<addrs, writer, readers, notify, done, now>>

\* The caller, after the conversion, writes into the wire.NetAddress it
\* holds: the one asNetAddress returned or the one it gave to fromNetAddress.
WriteTimestamp(p, t) ==
    /\ pc[p] = "converted"
    /\ heap' = [heap EXCEPT ![call[p].e].Timestamp = t]
    /\ UNCHANGED <<addrs, writer, readers, notify, pc, call, done, now>>

WritePort(p, port) ==
    /\ pc[p] = "converted"
    /\ heap' = [heap EXCEPT ![call[p].e].Port = port]
    /\ UNCHANGED <<addrs, writer, readers, notify, pc, call, done, now>>

WriteIP(p, i, b) ==
    /\ pc[p] = "converted"
    /\ heap[call[p].e].IP # Nil
    /\ heap' = [heap EXCEPT ![heap[call[p].e].IP].val = SetByte(@, i, b)]
    /\ UNCHANGED <<addrs, writer, readers, notify, pc, call, done, now>>

NextConvert ==
    \/ \E p \in Workers : asNetAddress(p) \/ fromNetAddress(p)
    \/ \E p \in Workers : \E t \in 0..MaxClock : WriteTimestamp(p, t)
    \/ \E p \in Workers : \E port \in WrittenPorts : WritePort(p, port)
    \/ \E p \in Workers : \E i \in WrittenOffsets, b \in WrittenBytes : WriteIP(p, i, b)

SpecConvert == InitConvert /\ [][NextConvert]_vars

\* Goroutine p has converted with op and holds the record in cell call[p].a
\* and the wire.NetAddress in cell call[p].e.
Converted(p, op) == pc[p] = "converted" /\ call[p].op = op

\* C13: asNetAddress leaves the record as it is and returns a new
\* wire.NetAddress whose Timestamp is the record's lastUpdate, and no write
\* of the caller's into the returned value (its Timestamp, its Port, the
\* bytes of its IP) changes the record.
C13_AsNetAddressCopies ==
    [][\A p \in Workers :
          /\ (Called(p, "asNetAddress") /\ pc'[p] = "converted") =>
                /\ AddressAt(heap', call[p].a) = AddressAt(heap, call[p].a)
                /\ call'[p].e # heap[call[p].a].netaddr
                /\ heap'[call'[p].e].Timestamp = heap[call[p].a].lastUpdate
          /\ Converted(p, "asNetAddress") =>
                AddressAt(heap', call[p].a) = AddressAt(heap, call[p].a)
      ]_vars

\* C14: no write of the caller's into the wire.NetAddress it gave to
\* fromNetAddress changes the record fromNetAddress made of it, which has
\* blacklisted = false and the lastUpdate of that Timestamp.
C14_FromNetAddressCopies ==
    [][\A p \in Workers :
          /\ (Called(p, "fromNetAddress") /\ pc'[p] = "converted") =>
                /\ ~heap'[call'[p].a].blacklisted
                /\ heap'[call'[p].a].lastUpdate = heap[call[p].na].Timestamp
          /\ Converted(p, "fromNetAddress") =>
                AddressAt(heap', call[p].a) = AddressAt(heap, call[p].a)
      ]_vars

----------------------------------------------------------------------------
(* Claims about the lock.                                                  *)

\* Where a goroutine is between addrState.Lock() and the Unlock() after it:
\* there the map and the records are read and written (lines 90, 101-102,
\* 110-121, 130-131 and 161).
ExclusiveSections ==
    {"addLocked", "removeLocked", "blacklistLocked", "touchLocked",
     "waitLocked", "waitEnter", "waitListed", "waitBreak"}

\* Where a goroutine is between addrState.RLock() and the RUnlock() after
\* it: there the map and the records are read (lines 140 and 148-149).
SharedSections == {"isKnownLocked", "isBlacklistedLocked"}

\* Where a waiter is inside Cond.Wait, after its Unlock and before its Lock.
BlockedInWait == {"waitParked", "waitWoken"}

LockDiscipline ==
    /\ {p \in Procs : pc[p] \in ExclusiveSections} =
          IF writer = NoProc THEN {} ELSE {writer}
    /\ {p \in Procs : pc[p] \in SharedSections} = readers
    /\ writer # NoProc => readers = {}
    /\ \A p \in Waiters :
          pc[p] \in BlockedInWait => writer # p /\ p \notin readers

\* C15: a goroutine is in a section that reads or writes the map exactly
\* when it holds the lock, in the exclusive form where it may write; the
\* exclusive form has one holder at most and none while the shared form is
\* held; a waiter inside Cond.Wait holds neither form; and the map changes
\* only in a step of the holder of the exclusive form.
C15_LockDiscipline ==
    [][/\ LockDiscipline
       /\ LockDiscipline'
       /\ addrs' # addrs =>
             \E p \in Procs :
                writer = p /\ pc[p] \in ExclusiveSections /\ pc'[p] # pc[p]
      ]_vars

\* A waiter is blocked in Cond.Wait while the two workers hold the shared
\* form together.
C15_Witness ==
    /\ \E p \in Waiters : pc[p] = "waitParked" /\ p \in notify
    /\ Cardinality(readers) = 2
    /\ \A p \in readers : pc[p] \in SharedSections

----------------------------------------------------------------------------
(* Claims about the signalling of Add.                                     *)

\* C16: an Add whose text parses goes through Lock, the insertion with the
\* Unlock, and then one Broadcast that notifies every waiter on the list,
\* made without the lock, and returns; an Add whose text fails to parse
\* returns from the parse with the lock and the notify list as they were;
\* no other step of an Add notifies anyone.
C16_AddBroadcastsOnceAfterUnlock ==
    [][\A p \in Workers :
          (call[p].op = "Add" /\ pc'[p] # pc[p]) =>
             /\ pc[p] = "called" =>
                   pc'[p] = "addParsed" /\ UNCHANGED <<addrs, writer, notify>>
             /\ pc[p] = "addParsed" =>
                   IF call[p].s \in Malformed
                   THEN pc'[p] = "idle" /\ UNCHANGED <<addrs, writer, notify>>
                   ELSE /\ pc'[p] = "addLocked"
                        /\ writer = NoProc /\ writer' = p
                        /\ UNCHANGED <<addrs, notify>>
             /\ pc[p] = "addLocked" =>
                   /\ pc'[p] = "addUnlocked"
                   /\ Has(addrs', call[p].s)
                   /\ writer = p /\ writer' = NoProc
                   /\ notify' = notify
             /\ pc[p] = "addUnlocked" =>
                   /\ pc'[p] = "idle"
                   /\ writer # p
                   /\ notify' = {}
                   /\ UNCHANGED <<addrs, writer>>
      ]_vars

\* An Add has inserted and unlocked and is about to Broadcast to a waiter
\* on the notify list, while another worker holds the lock.
C16_Witness ==
    \E p, q \in Workers :
        /\ pc[p] = "addUnlocked"
        /\ notify # {}
        /\ q # p /\ writer = q

\* C17 as claimed: a waiter that is about to check the count holds the
\* shared form of the lock and not the exclusive one.
C17_CountCheckShared ==
    \A p \in Waiters :
        pc[p] = "waitLocked" => p \in readers /\ writer # p

\* C17 as amended: a waiter that is about to check the count holds the
\* exclusive form, as Add, Remove, Blacklist and Touch do in their locked
\* sections, so no reader holds the lock then; the holders of the shared
\* form are callers of IsKnown and IsBlacklisted alone.
C17_CountCheckExclusive ==
    /\ \A p \in Waiters :
          pc[p] = "waitLocked" => writer = p /\ readers = {}
    /\ \A p \in Workers :
          pc[p] \in {"addLocked", "removeLocked", "blacklistLocked", "touchLocked"} =>
             writer = p /\ readers = {}
    /\ \A p \in readers :
          /\ p \in Workers
          /\ call[p].op \in {"IsKnown", "IsBlacklisted"}
          /\ pc[p] \in SharedSections

\* A waiter is about to check the count while one worker has called IsKnown
\* and the other IsBlacklisted, and neither has the shared lock.
C17_Witness ==
    /\ \E p \in Waiters : pc[p] = "waitLocked"
    /\ \E q, r \in Workers : Called(q, "IsKnown") /\ Called(r, "IsBlacklisted")

\* The operations that take a key from the state a to the state b.
Movers(a, b) ==
    CASE a = "Absent" /\ b = "Known" -> {"Add"}
      [] a = "Absent" /\ b = "Blacklisted" -> {"Blacklist"}
      [] a = "Known" /\ b = "Blacklisted" -> {"Blacklist"}
      [] a = "Blacklisted" /\ b = "Known" -> {"Add"}
      [] a # "Absent" /\ b = "Absent" -> {"Remove"}
      [] OTHER -> {}

\* C18: a key is blacklisted only if it is known; its state changes only in
\* the step that ends the exclusive section of an operation on that key:
\* from Absent to Known by an Add and to Blacklisted by a Blacklist of a
\* text that parses, from Known to Blacklisted by a Blacklist, from
\* Blacklisted to Known by an Add, and to Absent by a Remove; so Touch,
\* Blacklist and the operations on other keys never clear the flag.
C18_KeyStateMachine ==
    [][\A k \in Keys :
          /\ IsBlacklisted(addrs, k) => IsKnown(addrs, k)
          /\ IsBlacklisted(addrs', k) => IsKnown(addrs', k)
          /\ KeyState(addrs', k) # KeyState(addrs, k) =>
                \E p \in Workers :
                   /\ Commits(p)
                   /\ call[p].s = k
                   /\ call[p].op \in Movers(KeyState(addrs, k), KeyState(addrs', k))
                   /\ KeyState(addrs, k) = "Absent" => k \notin Malformed
      ]_vars

\* Touch is about to run on a blacklisted key while the other worker has
\* called Blacklist on the same key and a second key is known.
C18_Witness ==
    \E p, q \in Workers :
        /\ pc[p] = "touchLocked"
        /\ KeyState(addrs, call[p].s) = "Blacklisted"
        /\ Called(q, "Blacklist") /\ call[q].s = call[p].s
        /\ \E k \in Keys : KeyState(addrs, k) = "Known"

----------------------------------------------------------------------------
(* One call of any method per worker beside the waitForAddresses calls, on *)
(* a new registry.  Every goroutine is scheduled fairly and the lock is    *)
(* handed to whoever keeps asking for it, but nobody need ever receive on  *)
(* a done channel: a waiter may stay blocked in its send for ever.         *)

InitBusy ==
    /\ addrs = [k \in {} |-> NoAddress]
    /\ writer = NoProc
    /\ readers = {}
    /\ notify = {}
    /\ pc = [p \in Procs |-> "called"]
    /\ \E ops \in [Workers -> Methods], keys \in [Workers -> Keys],
          ns \in [Waiters -> Thresholds] :
         call = [p \in Procs |->
                    IF p \in Workers
                    THEN [op |-> ops[p], s |-> keys[p]]
                    ELSE [op |-> "waitForAddresses", n |-> ns[p]]]
    /\ done = [p \in Procs |-> 0]
    /\ now = 0
    /\ heap = NoHeap

NextBusy ==
    \/ \E p \in Workers : Add(p) \/ Remove(p) \/ Blacklist(p) \/ Touch(p) \/ Query(p)
    \/ \E p \in Waiters : waitForAddresses(p)

AcquireShared(p) == IsKnownRLock(p) \/ IsBlacklistedRLock(p)

\* The steps of waitForAddresses that wait for nobody.
WaitProgress(p) ==
    \/ WaitCheck(p)
    \/ WaitListAdd(p)
    \/ WaitRelease(p)
    \/ WaitWake(p)
    \/ WaitUnlock(p)

FairnessBusy ==
    /\ \A p \in Workers :
          /\ WF_vars(Progress(p) \/ Query(p))
          /\ SF_vars(Acquire(p) \/ AcquireShared(p))
    /\ \A p \in Waiters :
          /\ WF_vars(WaitProgress(p))
          /\ SF_vars(Acquire(p))

SpecBusy == InitBusy /\ [][NextBusy]_vars /\ FairnessBusy

\* C19: a waiter blocked in Cond.Wait or in its send on done holds no form
\* of the lock, and every call of Add, Remove, Blacklist, Touch, IsKnown and
\* IsBlacklisted made beside waiters, blocked or not, runs to its return.
C19_WaitersBlockNobody ==
    /\ [](\A w \in Waiters :
             pc[w] \in BlockedInWait \cup {"waitSend"} =>
                writer # w /\ w \notin readers)
    /\ \A p \in Workers : (pc[p] = "called") ~> (pc[p] = "idle")

\* A waiter is blocked in its send on done while a worker has called a
\* method and not yet taken the lock.
C19_Witness ==
    /\ \E w \in Waiters : pc[w] = "waitSend" /\ done[w] = 0
    /\ \E p \in Workers : pc[p] = "called"

----------------------------------------------------------------------------
(* Claims about lastUpdate.                                                *)

\* C20: while a key stays present, the lastUpdate of its record never
\* decreases, the clock being read at each time.Now().
C20_LastUpdateNeverDecreases ==
    [][\A k \in Keys :
          (Has(addrs, k) /\ Has(addrs', k)) =>
             addrs'[k].lastUpdate >= addrs[k].lastUpdate
      ]_vars

====
